---------------------------- MODULE Spec2Model ----------------------------
(***************************************************************************)
(* Device-binding authorization server (src/server.js).                    *)
(*                                                                         *)
(* The server keeps two files: codes.json (the registry of access codes)   *)
(* and bindings.json (the map binding id -> {id, code, fingerprint,        *)
(* token}).  Every Express handler of the file is synchronous (it uses     *)
(* only fs.*Sync calls and never awaits), so Node runs each handler to     *)
(* completion before it starts the next one: a handler is one atomic step. *)
(* src/unnamed/part_000 is an earlier copy of the file with the same        *)
(* handlers; the line numbers quoted here are those of src/server.js.       *)
(*                                                                         *)
(* Strings are sequences of characters; a character is written as a        *)
(* one-letter string, or as "U+XXXX" for a character outside ASCII.        *)
(* A JSON value of a request body is a record [t, s]: its JavaScript type  *)
(* and its text (what .toString() gives).                                  *)
(***************************************************************************)
EXTENDS Naturals, Sequences, FiniteSets

VARIABLES
  codesFile,     \* codes.json: [exists, isArray, items]
  bindingsFile,  \* bindings.json: [exists, parses, bindings]: whether its text is
                 \* JSON, and the bindings that text holds, in insertion order
  uuids,         \* how many uuidv4() values have been drawn
  inflight,      \* requests received and not yet handled
  req,           \* the request the last handler ran on
  res,           \* the response the last handler sent
  io,            \* the fs helpers the last handler called
  overlap,       \* the requests that were in flight while the last handler ran
  prev,          \* the request and response of the handler before the last, when
                 \* the last handled request was already in flight then
  issued,        \* history: bound-first-time responses not yet undone by a reset
  freed,         \* history: normalized codes whose last event is a successful reset
  revoked        \* history: the issued tokens a successful reset has undone

vars ==
  <<codesFile, bindingsFile, uuids, inflight, req, res, io, overlap, prev, issued, freed,
    revoked>>

-----------------------------------------------------------------------------
(* Bounds *)

\* How many first-time bindings a run may create (each draws two uuids).
MaxBinds == 2

\* How many requests may be in flight at once.
MaxInflight == 2

-----------------------------------------------------------------------------
(* JSON values *)

Undefined == [t |-> "undefined", s |-> <<>>]
Str(s) == [t |-> "string", s |-> s]
Num(s) == [t |-> "number", s |-> s]

\* JavaScript truthiness: undefined, "" and 0 are falsy.
Truthy(v) ==
  CASE v.t = "undefined" -> FALSE
    [] v.t = "string" -> v.s /= <<>>
    [] v.t = "number" -> v.s /= <<"0">>
    [] OTHER -> TRUE

IsString(v) == v.t = "string"

-----------------------------------------------------------------------------
(* Codes *)

\* The code ensureFile writes into an absent codes.json.
ABC123 == <<"A", "B", "C", "1", "2", "3">>

\* Spellings of the default code: lowercase, with whitespace, with a
\* full-width first letter.
abc123 == <<"a", "b", "c", "1", "2", "3">>
a_b_c123 == <<"a", " ", "b", " ", "c", "1", "2", "3">>
FwABC123 == <<"U+FF21", "B", "C", "1", "2", "3">>

\* A second code, spelled with U+00DF and with its capital U+1E9E.
SharpS9 == <<"U+00DF", "9">>
CapitalSharpS9 == <<"U+1E9E", "9">>

\* The codes.json files a deployment starts with: none (ensureFile writes
\* ["ABC123"]), a list whose entries need normalizing themselves, or a list
\* with a whitespace-only entry.
Registries ==
  { [exists |-> FALSE, isArray |-> FALSE, items |-> <<>>],
    [exists |-> TRUE, isArray |-> TRUE,
     items |-> <<Str(<<"a", "b", "c", " ", "1", "2", "3">>), Str(SharpS9)>>],
    [exists |-> TRUE, isArray |-> TRUE, items |-> <<Str(<<" ">>)>>] }

\* What a request may carry as code: nothing, a number, the empty string,
\* whitespace, a code of no registry, and spellings of the registered codes.
Codes ==
  {Undefined, Num(<<"7">>), Str(<<>>), Str(<<" ">>), Str(<<"Z", "Z">>),
   Str(ABC123), Str(abc123), Str(a_b_c123), Str(FwABC123),
   Str(SharpS9), Str(CapitalSharpS9)}

\* Every value normalizeCode is applied to: the codes of requests and the
\* entries of codes.json as loadCodes returns them (strings).
CodeValues ==
  Codes \cup UNION {{Str(f.items[i].s) : i \in 1..Len(f.items)} : f \in Registries}

-----------------------------------------------------------------------------
(* normalizeCode *)

\* String.prototype.normalize("NFKC") on one character: compatibility
\* characters fold to their plain form, the others are left alone.
NFKCChar(ch) ==
  CASE ch = "U+FF21" -> <<"A">>      \* FULLWIDTH LATIN CAPITAL LETTER A
    [] ch = "U+FF41" -> <<"a">>      \* FULLWIDTH LATIN SMALL LETTER A
    [] ch = "U+00A0" -> <<" ">>      \* NO-BREAK SPACE
    [] ch = "U+FB01" -> <<"f", "i">> \* LATIN SMALL LIGATURE FI
    [] OTHER -> <<ch>>

\* The characters the regular expression \s matches.
IsWhitespace(ch) == ch \in {" ", "\t", "\n", "U+00A0"}

\* String.prototype.toUpperCase() on one character (Unicode default case
\* conversion, SpecialCasing included: U+00DF has no one-character capital).
\* The lowercase letter a request spells a fingerprint or uuid with never
\* reaches this operator.
ToUpperChar(ch) ==
  CASE ch = "a" -> <<"A">>
    [] ch = "b" -> <<"B">>
    [] ch = "c" -> <<"C">>
    [] ch = "f" -> <<"F">>
    [] ch = "i" -> <<"I">>
    [] ch = "z" -> <<"Z">>
    [] ch = "U+00DF" -> <<"S", "S">> \* LATIN SMALL LETTER SHARP S
    [] ch = "U+1E9E" -> <<"U+1E9E">> \* LATIN CAPITAL LETTER SHARP S
    [] OTHER -> <<ch>>

RECURSIVE NFKC(_)
NFKC(s) == IF s = <<>> THEN <<>> ELSE NFKCChar(Head(s)) \o NFKC(Tail(s))

RECURSIVE StripWhitespace(_)
StripWhitespace(s) ==
  IF s = <<>> THEN <<>>
  ELSE IF IsWhitespace(Head(s)) THEN StripWhitespace(Tail(s))
       ELSE <<Head(s)>> \o StripWhitespace(Tail(s))

RECURSIVE ToUpperCase(_)
ToUpperCase(s) == IF s = <<>> THEN <<>> ELSE ToUpperChar(Head(s)) \o ToUpperCase(Tail(s))

\* (c || "").toString()
ToStringOrEmpty(v) == IF Truthy(v) THEN v.s ELSE <<>>

\* normalizeCode tabulated over the values the model applies it to.
NormalizedCode ==
  [v \in CodeValues |-> ToUpperCase(StripWhitespace(NFKC(ToStringOrEmpty(v))))]

\* normalizeCode(c)
normalizeCode(v) == NormalizedCode[v]

-----------------------------------------------------------------------------
(* The two files *)

DefaultCodes == [exists |-> TRUE, isArray |-> TRUE, items |-> <<Str(ABC123)>>]

\* The JSON ensureFile writes into an absent bindings.json: {}.
DefaultBindings == [exists |-> TRUE, parses |-> TRUE, bindings |-> <<>>]

\* ensureFile(path, defaultContent): the file after the call.
ensureFile(file, defaultContent) == IF file.exists THEN file ELSE defaultContent

RECURSIVE MapString(_)
MapString(items) ==
  IF items = <<>> THEN <<>> ELSE <<Str(Head(items).s)>> \o MapString(Tail(items))

\* loadCodes(): the array of the file with every entry made a string, or [].
loadCodes(file) ==
  LET f == ensureFile(file, DefaultCodes)
  IN IF f.isArray THEN MapString(f.items) ELSE <<>>

\* loadBindings(): the parsed object, its entries in insertion order; {} when
\* JSON.parse throws.
loadBindings(file) ==
  LET f == ensureFile(file, DefaultBindings)
  IN IF f.parses THEN f.bindings ELSE <<>>

\* Mutant: only the entry written last reaches the file.
saveBindings_OnlyLast(bindings) ==
  [exists |-> TRUE, parses |-> TRUE,
   bindings |-> IF bindings = <<>> THEN <<>> ELSE <<bindings[Len(bindings)]>>]

\* saveBindings(bindings): the file after the call.
saveBindings(bindings) == [exists |-> TRUE, parses |-> TRUE, bindings |-> bindings]

\* uuidv4(): the n-th value drawn; no two draws are equal.
Digits == <<"1", "2", "3", "4", "5", "6", "7", "8", "9">>

\* Mutant: every draw gives the same value.
uuidv4_Fixed(n) == Str(<<"u", "1">>)

uuidv4(n) == Str(<<"u", Digits[n]>>)

-----------------------------------------------------------------------------
(* Responses *)

Reply(status, ok, mode, error, token) ==
  [status |-> status, ok |-> ok, mode |-> mode, error |-> error, token |-> token]

MissingFingerprint == Reply(400, FALSE, "", "Missing fingerprint", Undefined)
InvalidToken == Reply(401, FALSE, "", "Invalid token", Undefined)
TokenMismatch == Reply(403, FALSE, "", "Token does not match this device", Undefined)
TokenOk == Reply(200, TRUE, "token", "", Undefined)
MissingCode == Reply(400, FALSE, "", "Missing code", Undefined)
BadCode == Reply(401, FALSE, "", "Bad code", Undefined)
BoundFirstTime(token) == Reply(200, TRUE, "bound-first-time", "", token)
SameDevice(token) == Reply(200, TRUE, "same-device", "", token)
\* The message is the source's, written without its accents.
AlreadyUsed ==
  Reply(403, FALSE, "", "Ce code a deja ete utilise sur un autre appareil.", Undefined)
ResetOk == Reply(200, TRUE, "", "", Undefined)
CodeNotFound == Reply(404, FALSE, "", "Code not found", Undefined)

\* What a handler leaves behind: its response, the two files, the uuid count
\* and the fs helpers it called.
Outcome(r, bf, cf, n, calls) ==
  [res |-> r, bindingsFile |-> bf, codesFile |-> cf, uuids |-> n, io |-> calls]

-----------------------------------------------------------------------------
(* POST /api/auth *)

Min(S) == CHOOSE x \in S : \A y \in S : x <= y

\* Object.values(bindings).find(b => b.token === token): the index of the
\* first match, 0 for undefined.
findByToken(bindings, token) ==
  LET hits == {i \in 1..Len(bindings) : bindings[i].token = token}
  IN IF hits = {} THEN 0 ELSE Min(hits)

\* Mutant: the lookup compares the codes as submitted.
existingKey_RawCompare(bindings, code) ==
  LET hits == {i \in 1..Len(bindings) : bindings[i].code = code}
  IN IF hits = {} THEN 0 ELSE Min(hits)

\* Mutant: the lookup never finds the binding.
existingKey_NeverFound(bindings, code) == 0

\* Object.keys(bindings).find(k => normalizeCode(bindings[k].code) === entered),
\* entered being normalizeCode(code): the index of the first match, 0 for
\* undefined.
existingKey(bindings, code) ==
  LET hits == {i \in 1..Len(bindings) :
                 normalizeCode(bindings[i].code) = normalizeCode(code)}
  IN IF hits = {} THEN 0 ELSE Min(hits)

\* Mutant: the membership test is skipped.
isAllowed_Unchecked(file, code) == TRUE

\* loadCodes().map(normalizeCode).includes(normalizeCode(code))
isAllowed(file, code) ==
  \E i \in 1..Len(loadCodes(file)) :
    normalizeCode(loadCodes(file)[i]) = normalizeCode(code)

\* Mutant: the token branch does not compare the fingerprints.
TokenPath_NoDeviceCheck(body, bf, cf, n) ==
  LET bindings == loadBindings(bf)
      loaded == ensureFile(bf, DefaultBindings)
      found == findByToken(bindings, body.token)
  IN IF found = 0 THEN Outcome(InvalidToken, loaded, cf, n, {"loadBindings"})
     ELSE Outcome(TokenOk, loaded, cf, n, {"loadBindings"})

\* The token branch of the handler.
TokenPath(body, bf, cf, n) ==
  LET bindings == loadBindings(bf)
      loaded == ensureFile(bf, DefaultBindings)
      found == findByToken(bindings, body.token)
  IN IF found = 0 THEN Outcome(InvalidToken, loaded, cf, n, {"loadBindings"})
     ELSE IF bindings[found].fingerprint /= body.fingerprint
          THEN Outcome(TokenMismatch, loaded, cf, n, {"loadBindings"})
          ELSE Outcome(TokenOk, loaded, cf, n, {"loadBindings"})

\* Mutant: the type of the code is not checked.
codeMissing_NoTypeCheck(code) == ~Truthy(code)

\* !code || typeof code !== "string"
codeMissing(code) == ~Truthy(code) \/ ~IsString(code)

\* Mutant: the bound code answers every device.
AlreadyBound_NoDeviceCheck(binding, fingerprint) == SameDevice(binding.token)

\* The response when the code is already bound: the binding's token to the
\* device it is bound to, a refusal to any other.
AlreadyBound(binding, fingerprint) ==
  IF binding.fingerprint = fingerprint THEN SameDevice(binding.token) ELSE AlreadyUsed

\* bindings[id] = newBinding: the entry of that key is replaced, a new key is
\* added last.
setBinding(bindings, b) ==
  IF \E i \in 1..Len(bindings) : bindings[i].id = b.id
  THEN [i \in 1..Len(bindings) |-> IF bindings[i].id = b.id THEN b ELSE bindings[i]]
  ELSE Append(bindings, b)

\* The code branch of the handler.
CodePath(body, bf, cf, n) ==
  LET bindings == loadBindings(bf)
      loaded == ensureFile(bf, DefaultBindings)
      codes == ensureFile(cf, DefaultCodes)
      key == existingKey(bindings, body.code)
      newBinding == [id |-> uuidv4(n + 1), code |-> body.code,
                     fingerprint |-> body.fingerprint, token |-> uuidv4(n + 2)]
  IN IF codeMissing(body.code)
     THEN Outcome(MissingCode, loaded, cf, n, {"loadBindings"})
     ELSE IF ~isAllowed(cf, body.code)
     THEN Outcome(BadCode, loaded, codes, n, {"loadBindings", "loadCodes"})
     ELSE IF key = 0
     THEN Outcome(BoundFirstTime(newBinding.token),
                  saveBindings(setBinding(bindings, newBinding)), codes, n + 2,
                  {"loadBindings", "loadCodes", "saveBindings"})
     ELSE Outcome(AlreadyBound(bindings[key], body.fingerprint), loaded, codes, n,
                  {"loadBindings", "loadCodes"})

\* Mutant: the token is looked up before the fingerprint is validated.
PostApiAuth_TokenFirst(body, bf, cf, n) ==
  IF Truthy(body.token) THEN TokenPath(body, bf, cf, n)
  ELSE IF ~Truthy(body.fingerprint) \/ ~IsString(body.fingerprint)
  THEN Outcome(MissingFingerprint, bf, cf, n, {})
  ELSE CodePath(body, bf, cf, n)

\* Mutant: a token no binding has does not end the request, the code is tried.
PostApiAuth_CodeFallback(body, bf, cf, n) ==
  IF ~Truthy(body.fingerprint) \/ ~IsString(body.fingerprint)
  THEN Outcome(MissingFingerprint, bf, cf, n, {})
  ELSE IF Truthy(body.token) /\ findByToken(loadBindings(bf), body.token) /= 0
  THEN TokenPath(body, bf, cf, n)
  ELSE CodePath([body EXCEPT !.token = Undefined], bf, cf, n)

\* app.post("/api/auth", ...)
PostApiAuth(body, bf, cf, n) ==
  IF ~Truthy(body.fingerprint) \/ ~IsString(body.fingerprint)
  THEN Outcome(MissingFingerprint, bf, cf, n, {})
  ELSE IF Truthy(body.token) THEN TokenPath(body, bf, cf, n)
  ELSE CodePath(body, bf, cf, n)

-----------------------------------------------------------------------------
(* POST /api/admin/reset-code *)

\* The bindings the loop of the handler leaves: those whose normalized code
\* differs from the normalized request code, in their order.
\* Mutant: the stored code is compared as it was typed.
RemainingAfterReset_RawCompare(bindings, code) ==
  LET Keep(b) == Str(b.code.s) /= code
  IN SelectSeq(bindings, Keep)

\* Mutant: a reset clears the whole store.
RemainingAfterReset_None(bindings, code) == <<>>

RemainingAfterReset(bindings, code) ==
  LET Keep(b) == normalizeCode(b.code) /= normalizeCode(code)
  IN SelectSeq(bindings, Keep)

\* Mutant: the reset reports success without saving the bindings left.
PostAdminResetCode_NoSave(body, bf, cf, n) ==
  LET bindings == loadBindings(bf)
      loaded == ensureFile(bf, DefaultBindings)
      remaining == RemainingAfterReset(bindings, body.code)
  IN IF ~Truthy(body.code) THEN Outcome(MissingCode, bf, cf, n, {})
     ELSE IF Len(remaining) < Len(bindings)
     THEN Outcome(ResetOk, loaded, cf, n, {"loadBindings"})
     ELSE Outcome(CodeNotFound, loaded, cf, n, {"loadBindings"})

\* app.post("/api/admin/reset-code", ...)
PostAdminResetCode(body, bf, cf, n) ==
  LET bindings == loadBindings(bf)
      loaded == ensureFile(bf, DefaultBindings)
      remaining == RemainingAfterReset(bindings, body.code)
  IN IF ~Truthy(body.code) THEN Outcome(MissingCode, bf, cf, n, {})
     ELSE IF Len(remaining) < Len(bindings)
     THEN Outcome(ResetOk, saveBindings(remaining), cf, n,
                  {"loadBindings", "saveBindings"})
     ELSE Outcome(CodeNotFound, loaded, cf, n, {"loadBindings"})

-----------------------------------------------------------------------------
(* Requests *)

F1 == Str(<<"F", "1">>)
F2 == Str(<<"F", "2">>)

\* What a request may carry as token: nothing, the empty string, a string
\* no uuid equals, or any uuid the server may have drawn (ids and tokens).
Tokens ==
  {Undefined, Str(<<>>), Str(<<"z", "z">>)} \cup {uuidv4(n) : n \in 1..(2 * MaxBinds)}

AuthRequest(token, fingerprint, code) ==
  [kind |-> "auth", token |-> token, fingerprint |-> fingerprint, code |-> code]

ResetRequest(code) ==
  [kind |-> "reset", token |-> Undefined, fingerprint |-> Undefined, code |-> code]

\* The bodies a client may post to /api/auth: without a usable fingerprint
\* (alone, with a token, with a code); with a token (and, or not, a code); with
\* a code and no token, or an empty one.
AuthRequests ==
  {AuthRequest(t, f, c) :
     t \in {Undefined, uuidv4(2)}, f \in {Undefined, Num(<<"7">>), Str(<<>>)},
     c \in {Undefined, Str(ABC123)}}
  \cup {AuthRequest(t, f, c) :
          t \in Tokens \ {Undefined, Str(<<>>)}, f \in {F1, F2},
          c \in {Undefined, Str(abc123)}}
  \cup {AuthRequest(Undefined, f, c) : f \in {F1, F2}, c \in Codes}
  \cup {AuthRequest(Str(<<>>), F1, c) : c \in {Undefined, Str(ABC123)}}

ResetRequests == {ResetRequest(c) : c \in Codes}

\* The requests that may be in flight together: code-path requests for the
\* default code from the two devices, and resets of it.
RacingRequests ==
  {AuthRequest(Undefined, f, c) :
     f \in {F1, F2}, c \in {Str(ABC123), Str(abc123), Str(a_b_c123)}}
  \cup {ResetRequest(Str(abc123))}

NoRequest == [kind |-> "none", token |-> Undefined, fingerprint |-> Undefined,
              code |-> Undefined]

NoResponse == Reply(0, FALSE, "", "", Undefined)

\* What a client gets when fs.writeFileSync throws: the catch of /api/auth
\* answers 500 with the exception's message, and Express answers 500 to the
\* exception /api/admin/reset-code lets through.
InternalError == Reply(500, FALSE, "", "write failed", Undefined)

-----------------------------------------------------------------------------
(* History *)

\* A request that reaches the code lookup of /api/auth: a valid fingerprint,
\* no token, a non-empty string as code.
IsCodePath(r) ==
  /\ r.kind = "auth"
  /\ Truthy(r.fingerprint) /\ IsString(r.fingerprint)
  /\ ~Truthy(r.token)
  /\ Truthy(r.code) /\ IsString(r.code)

\* issued after request r got response out: a bound-first-time response adds
\* (code, fingerprint, token); a successful reset drops the entries of its code.
IssuedAfter(r, out) ==
  IF out.mode = "bound-first-time"
  THEN issued \cup {[code |-> r.code, fingerprint |-> r.fingerprint, token |-> out.token]}
  ELSE IF r.kind = "reset" /\ out.ok
  THEN {i \in issued : normalizeCode(i.code) /= normalizeCode(r.code)}
  ELSE issued

RevokedAfter(r, out) ==
  IF r.kind = "reset" /\ out.ok
  THEN revoked \cup {i.token : i \in {j \in issued :
                                       normalizeCode(j.code) = normalizeCode(r.code)}}
  ELSE revoked

FreedAfter(r, out) ==
  IF r.kind = "reset" /\ out.ok THEN freed \cup {normalizeCode(r.code)}
  ELSE IF IsCodePath(r) THEN freed \ {normalizeCode(r.code)}
  ELSE freed

-----------------------------------------------------------------------------
(* Actions *)

Init ==
  /\ codesFile \in Registries
  /\ bindingsFile = [exists |-> FALSE, parses |-> TRUE, bindings |-> <<>>]
  /\ uuids = 0
  /\ inflight = {}
  /\ req = NoRequest
  /\ res = NoResponse
  /\ io = {}
  /\ overlap = {}
  /\ prev = [req |-> NoRequest, res |-> NoResponse]
  /\ issued = {}
  /\ freed = {}
  /\ revoked = {}

\* The handler of request r runs to completion on the current files.
Handle(r, out) ==
  /\ out.uuids <= 2 * MaxBinds
  /\ codesFile' = out.codesFile
  /\ bindingsFile' = out.bindingsFile
  /\ uuids' = out.uuids
  /\ req' = r
  /\ res' = out.res
  /\ io' = out.io
  /\ issued' = IssuedAfter(r, out.res)
  /\ freed' = FreedAfter(r, out.res)
  /\ revoked' = RevokedAfter(r, out.res)

\* A POST /api/auth request arrives and is handled.
Auth(r) ==
  /\ \E out \in {PostApiAuth(r, bindingsFile, codesFile, uuids)} : Handle(r, out)
  /\ UNCHANGED <<inflight, overlap, prev>>

\* A POST /api/admin/reset-code request arrives and is handled.
Reset(r) ==
  /\ \E out \in {PostAdminResetCode(r, bindingsFile, codesFile, uuids)} : Handle(r, out)
  /\ UNCHANGED <<inflight, overlap, prev>>

Next ==
  \/ \E r \in AuthRequests : Auth(r)
  \/ \E r \in ResetRequests : Reset(r)

Spec == Init /\ [][Next]_vars

\* A request arrives while others are still waiting for the event loop.
Receive(r) ==
  /\ Cardinality(inflight) < MaxInflight
  /\ r \notin inflight
  /\ inflight' = inflight \cup {r}
  /\ UNCHANGED <<codesFile, bindingsFile, uuids, req, res, io, overlap, prev, issued, freed,
                 revoked>>

\* The event loop picks a waiting /api/auth request and runs its handler.
HandleAuth(r) ==
  /\ r \in inflight /\ r.kind = "auth"
  /\ \E out \in {PostApiAuth(r, bindingsFile, codesFile, uuids)} : Handle(r, out)
  /\ inflight' = inflight \ {r}
  /\ overlap' = inflight \ {r}
  /\ prev' = IF r \in overlap THEN [req |-> req, res |-> res]
             ELSE [req |-> NoRequest, res |-> NoResponse]

\* The event loop picks a waiting reset request and runs its handler.
HandleReset(r) ==
  /\ r \in inflight /\ r.kind = "reset"
  /\ \E out \in {PostAdminResetCode(r, bindingsFile, codesFile, uuids)} : Handle(r, out)
  /\ inflight' = inflight \ {r}
  /\ overlap' = inflight \ {r}
  /\ prev' = IF r \in overlap THEN [req |-> req, res |-> res]
             ELSE [req |-> NoRequest, res |-> NoResponse]

NextConcurrent ==
  \/ \E r \in RacingRequests : Receive(r)
  \/ \E r \in RacingRequests : HandleAuth(r)
  \/ \E r \in RacingRequests : HandleReset(r)

SpecConcurrent == Init /\ [][NextConcurrent]_vars

\* The handler of r, run on the files as they are.
Handler(r) ==
  IF r.kind = "auth" THEN PostApiAuth(r, bindingsFile, codesFile, uuids)
  ELSE PostAdminResetCode(r, bindingsFile, codesFile, uuids)

\* bindings.json after a writeFileSync that stopped before the last entry was
\* whole: the text holds the entries before it and does not parse.
CutShort(file) ==
  [exists |-> TRUE, parses |-> FALSE,
   bindings |-> IF file.bindings = <<>> THEN <<>>
                ELSE SubSeq(file.bindings, 1, Len(file.bindings) - 1)]

\* saveBindings throws in the handler of r: nothing was written or the write
\* was cut short, and the client gets the 500 answer. The uuids the handler
\* drew are in no file and in no response: they are not counted, the next
\* draws stand for values as new as they were.
WriteFails(r) ==
  /\ \E out \in {Handler(r)} :
       /\ "saveBindings" \in out.io
       /\ \E file \in {ensureFile(bindingsFile, DefaultBindings),
                        CutShort(out.bindingsFile)} :
            Handle(r, [out EXCEPT !.res = InternalError, !.bindingsFile = file,
                                  !.uuids = uuids])
  /\ UNCHANGED <<inflight, overlap, prev>>

\* The process ends while the handler of r is in saveBindings, or after it and
\* before the response is sent: nothing was written, the write was cut short
\* or it completed, and the client gets no answer. The process that is
\* started next has the files and nothing else.
Crash(r) ==
  /\ \E out \in {Handler(r)} :
       /\ "saveBindings" \in out.io
       /\ \E file \in {ensureFile(bindingsFile, DefaultBindings),
                        CutShort(out.bindingsFile), out.bindingsFile} :
            Handle(r, [out EXCEPT !.res = NoResponse, !.bindingsFile = file,
                                  !.uuids = IF file = out.bindingsFile
                                            THEN out.uuids ELSE uuids])
  /\ UNCHANGED <<inflight, overlap, prev>>

\* The requests served while writes may fail: code-path requests of the two
\* devices for the registered codes, token requests with the tokens the server
\* may have issued, and resets.
FaultAuthRequests ==
  {AuthRequest(Undefined, f, c) :
     f \in {F1, F2}, c \in {Str(ABC123), Str(abc123), Str(SharpS9)}}
  \cup {AuthRequest(uuidv4(2 * k), F1, Undefined) : k \in 1..MaxBinds}

FaultResetRequests == {ResetRequest(c) : c \in {Str(abc123), Str(SharpS9)}}

NextFaults ==
  \/ \E r \in FaultAuthRequests : Auth(r)
  \/ \E r \in FaultResetRequests : Reset(r)
  \/ \E r \in FaultAuthRequests \cup FaultResetRequests : WriteFails(r)
  \/ \E r \in FaultAuthRequests \cup FaultResetRequests : Crash(r)

SpecFaults == Init /\ [][NextFaults]_vars

-----------------------------------------------------------------------------
(* Vocabulary of the properties *)

\* The bindings of the persisted store whose normalized code is that of code.
BindingsOf(file, code) ==
  {i \in 1..Len(file.bindings) :
     normalizeCode(file.bindings[i].code) = normalizeCode(code)}

\* The bound-first-time responses still standing for the code of `code`.
IssuedFor(code) == {i \in issued : normalizeCode(i.code) = normalizeCode(code)}

\* code is a member of the registry, by normalized form.
Registered(code) ==
  \E k \in 1..Len(loadCodes(codesFile)) :
    normalizeCode(loadCodes(codesFile)[k]) = normalizeCode(code)

\* Two code-path requests for one code from two devices.
Racing(r1, r2) ==
  /\ IsCodePath(r1) /\ IsCodePath(r2)
  /\ normalizeCode(r1.code) = normalizeCode(r2.code)
  /\ r1.fingerprint /= r2.fingerprint

\* This step runs the handler of a request that was in flight.
HandlerStep == req' \in inflight /\ inflight' = inflight \ {req'}

\* This step sends a response.
Responds == (req' /= req \/ res' /= res) /\ res' /= NoResponse

-----------------------------------------------------------------------------
(* C1 *)

\* C1: in every reachable state no two bindings of the store have codes with
\* equal normalized forms.
C1_OneBindingPerCode ==
  \A i, j \in 1..Len(bindingsFile.bindings) :
    normalizeCode(bindingsFile.bindings[i].code)
      = normalizeCode(bindingsFile.bindings[j].code) => i = j

\* Two codes are bound, and a request has just spelled one of them otherwise
\* than its binding does.
C1_Witness ==
  /\ Len(bindingsFile.bindings) = 2
  /\ IsCodePath(req)
  /\ \E i \in BindingsOf(bindingsFile, req.code) : bindingsFile.bindings[i].code /= req.code

-----------------------------------------------------------------------------
(* C2 *)

\* C2: of two code-path requests in flight together for the same registered,
\* unbound code from two devices, the one handled first gets bound-first-time
\* and the other, handled next, gets the already-used refusal; one binding
\* and one issued token exist for the code afterwards.
C2_FirstWins ==
  (/\ HandlerStep
   /\ IsCodePath(req') /\ Registered(req'.code) /\ IssuedFor(req'.code) = {}
   /\ \E r2 \in inflight' : Racing(req', r2))
  => /\ res'.mode = "bound-first-time"
     /\ Cardinality(BindingsOf(bindingsFile', req'.code)) = 1

C2_SecondRefused ==
  (Racing(prev.req, req) /\ prev.res.mode = "bound-first-time")
  => /\ res = AlreadyUsed
     /\ Cardinality(BindingsOf(bindingsFile, req.code)) = 1
     /\ Cardinality(IssuedFor(req.code)) = 1

C2_RaceHasOneWinner == [][C2_FirstWins]_vars /\ []C2_SecondRefused

\* Both racing requests have been handled, the second while the first ran.
C2_Witness ==
  /\ Racing(prev.req, req) /\ prev.res.mode = "bound-first-time"
  /\ prev.req.code /= req.code
  /\ res.status = 403

-----------------------------------------------------------------------------
(* C3 *)

\* C3: while the binding behind a token issued to fingerprint F stands, a
\* request with that token succeeds with mode "token" from F and fails with
\* the device-mismatch error from any other fingerprint.
C3_TokenRoundTrip ==
  [][\A i \in issued :
       (/\ req'.kind = "auth" /\ req'.token = i.token
        /\ Truthy(req'.fingerprint) /\ IsString(req'.fingerprint))
       => res' = IF req'.fingerprint = i.fingerprint THEN TokenOk ELSE TokenMismatch]_vars

\* Another device has presented a standing token.
C3_Witness ==
  /\ res = TokenMismatch
  /\ \E i \in issued : i.token = req.token /\ i.fingerprint /= req.fingerprint

-----------------------------------------------------------------------------
(* C4 *)

\* C4: a registered, unbound code gets bound-first-time; the same code from
\* the same fingerprint then gets same-device with the token of the first
\* response, and the store holds one binding for the code.
C4_Redeem ==
  /\ (IsCodePath(req') /\ Registered(req'.code) /\ IssuedFor(req'.code) = {})
     => /\ res'.mode = "bound-first-time"
        /\ Cardinality(BindingsOf(bindingsFile', req'.code)) = 1
  /\ \A i \in issued :
       (IsCodePath(req') /\ req'.code = i.code /\ req'.fingerprint = i.fingerprint)
       => /\ res' = SameDevice(i.token)
          /\ Cardinality(BindingsOf(bindingsFile', req'.code)) = 1

C4_SameDeviceIdempotent == [][C4_Redeem]_vars

\* The device has submitted its code a second time.
C4_Witness ==
  /\ res.mode = "same-device"
  /\ \E i \in issued :
       i.code = req.code /\ i.fingerprint = req.fingerprint /\ i.token = res.token

-----------------------------------------------------------------------------
(* C5 *)

\* C5: after a successful reset of a code, the next code-path request for a
\* code of the same normalized form gets bound-first-time, whatever its
\* fingerprint.
C5_ResetFreesCode ==
  [][(IsCodePath(req') /\ normalizeCode(req'.code) \in freed)
     => res'.mode = "bound-first-time"]_vars

\* A code has been bound, reset and bound again to another device under
\* another spelling.
C5_Witness ==
  /\ res.mode = "bound-first-time"
  /\ uuids = 4
  /\ Len(bindingsFile.bindings) = 1
  /\ req.fingerprint = F2 /\ req.code = Str(abc123)

-----------------------------------------------------------------------------
(* C6 *)

\* C6: while the binding of a code to fingerprint F1 stands, every code-path
\* request for that normalized code from another fingerprint gets the
\* already-used refusal.
C6_OtherDeviceRefused ==
  [][\A i \in issued :
       (/\ IsCodePath(req')
        /\ normalizeCode(req'.code) = normalizeCode(i.code)
        /\ req'.fingerprint /= i.fingerprint)
       => res' = AlreadyUsed]_vars

\* Another device has been refused a bound code, spelled otherwise.
C6_Witness ==
  /\ res = AlreadyUsed
  /\ \E i \in IssuedFor(req.code) : i.fingerprint /= req.fingerprint /\ i.code /= req.code

-----------------------------------------------------------------------------
(* C7 *)

\* C7: a /api/auth request whose fingerprint is absent or not a string gets
\* "Missing fingerprint" whatever token and code it carries, and its handler
\* neither reads nor writes a file.
C7_FingerprintFirst ==
  [][(req'.kind = "auth" /\ ~IsString(req'.fingerprint))
     => /\ res' = MissingFingerprint
        /\ io' = {}
        /\ bindingsFile' = bindingsFile /\ codesFile' = codesFile]_vars

\* A request without fingerprint has presented a standing token.
C7_Witness ==
  /\ res = MissingFingerprint
  /\ ~IsString(req.fingerprint)
  /\ \E i \in issued : i.token = req.token

-----------------------------------------------------------------------------
(* C8 *)

\* C8: a /api/auth request with a valid fingerprint, no token and a code that
\* is absent or not a string gets "Missing code" and creates no binding.
C8_CodeRequired ==
  [][(/\ req'.kind = "auth"
      /\ Truthy(req'.fingerprint) /\ IsString(req'.fingerprint)
      /\ req'.token = Undefined
      /\ ~IsString(req'.code))
     => /\ res' = MissingCode
        /\ bindingsFile'.bindings = bindingsFile.bindings]_vars

\* A number has been sent as code.
C8_Witness ==
  /\ res = MissingCode
  /\ req.kind = "auth" /\ req.code = Num(<<"7">>)

-----------------------------------------------------------------------------
(* C9 *)

\* C9: a code-path request whose normalized code equals that of no registry
\* entry gets "Bad code" and creates no binding; the code of every binding
\* of the store is, by normalized form, a registry member.
C9_Rejects ==
  (IsCodePath(req') /\ ~Registered(req'.code))
  => /\ res' = BadCode
     /\ bindingsFile'.bindings = bindingsFile.bindings

C9_BoundAreRegistered ==
  \A i \in 1..Len(bindingsFile.bindings) : Registered(bindingsFile.bindings[i].code)

C9_OnlyRegisteredCodesBind == [][C9_Rejects]_vars /\ []C9_BoundAreRegistered

\* An unregistered code has been refused while a binding stands.
C9_Witness ==
  /\ res = BadCode
  /\ IsCodePath(req) /\ ~Registered(req.code)
  /\ Len(bindingsFile.bindings) > 0

-----------------------------------------------------------------------------
(* C10 *)

\* What two characters that differ only by letter case or by compatibility
\* encoding have in common: the letter, written as its capital.
FoldChar(ch) ==
  CASE ch \in {"a", "A", "U+FF41", "U+FF21"} -> "A"
    [] ch \in {"b", "B"} -> "B"
    [] ch \in {"c", "C"} -> "C"
    [] ch \in {"z", "Z"} -> "Z"
    [] ch \in {"U+00DF", "U+1E9E"} -> "U+1E9E"
    [] OTHER -> ch

RECURSIVE Fold(_)
Fold(s) ==
  IF s = <<>> THEN <<>>
  ELSE IF Head(s) \in {" ", "\t", "\n", "U+00A0"} THEN Fold(Tail(s))
       ELSE <<FoldChar(Head(s))>> \o Fold(Tail(s))

\* Two codes that differ only by letter case, whitespace or compatibility
\* encoding.
SameCode(c1, c2) ==
  /\ IsString(c1) /\ Truthy(c1)
  /\ IsString(c2) /\ Truthy(c2)
  /\ Fold(c1.s) = Fold(c2.s)

C10_Step ==
  /\ (/\ IsCodePath(req')
      /\ \E k \in 1..Len(loadCodes(codesFile)) :
           SameCode(loadCodes(codesFile)[k], req'.code))
     => res' /= BadCode
  /\ \A i \in 1..Len(bindingsFile.bindings) :
       (IsCodePath(req') /\ SameCode(bindingsFile.bindings[i].code, req'.code))
       => res' = AlreadyBound(bindingsFile.bindings[i], req'.fingerprint)
  /\ \A i \in 1..Len(bindingsFile.bindings) :
       (req'.kind = "reset" /\ SameCode(bindingsFile.bindings[i].code, req'.code))
       => /\ res' = ResetOk
          /\ \A j \in 1..Len(bindingsFile'.bindings) :
               bindingsFile'.bindings[j] /= bindingsFile.bindings[i]

\* C10: a code that differs from a registry entry or from the code of a
\* binding only by letter case, whitespace or compatibility encoding is the
\* same code for the registry test and the binding lookup of /api/auth and
\* for the binding match of /api/admin/reset-code.
C10_SameCodeEverywhere == [][C10_Step]_vars

-----------------------------------------------------------------------------
(* C11 *)

\* C11: a reset-code request with a code removes the bindings whose normalized
\* code equals the normalized request code and no other, keeps the others as
\* they were, and answers ok; when no binding matches it answers "Code not
\* found" and the stored bindings are what they were.
C11_ResetRemovesExactly ==
  [][(req'.kind = "reset" /\ Truthy(req'.code))
     => LET old == bindingsFile.bindings
            new == bindingsFile'.bindings
            kept == {i \in 1..Len(old) :
                       normalizeCode(old[i].code) /= normalizeCode(req'.code)}
        IN /\ Len(new) = Cardinality(kept)
           /\ \A i \in kept : \E j \in 1..Len(new) : new[j] = old[i]
           /\ \A j \in 1..Len(new) :
                normalizeCode(new[j].code) /= normalizeCode(req'.code)
           /\ IF kept = 1..Len(old)
              THEN res' = CodeNotFound /\ new = old
              ELSE res' = ResetOk]_vars

\* A reset has removed the binding of one code and the binding of another
\* code is still stored.
C11_Witness ==
  /\ req.kind = "reset" /\ res = ResetOk
  /\ Len(bindingsFile.bindings) = 1
  /\ uuids = 4
  /\ \A i \in issued : i.code /= req.code

-----------------------------------------------------------------------------
(* C12 *)

C12_Step ==
  \A i \in 1..Len(bindingsFile.bindings) :
    (\A j \in 1..Len(bindingsFile'.bindings) :
       bindingsFile'.bindings[j] /= bindingsFile.bindings[i])
    => /\ req'.kind = "reset" /\ res' = ResetOk
       /\ normalizeCode(req'.code) = normalizeCode(bindingsFile.bindings[i].code)

C12_IssuedAreStored ==
  \A i \in issued :
    \E k \in 1..Len(loadBindings(bindingsFile)) :
      /\ loadBindings(bindingsFile)[k].code = i.code
      /\ loadBindings(bindingsFile)[k].fingerprint = i.fingerprint
      /\ loadBindings(bindingsFile)[k].token = i.token

\* C12: a stored binding leaves the store only in a step that answers ok to a
\* reset-code request whose normalized code is the binding's; so the binding
\* of every bound-first-time response is stored until such a reset, whatever
\* authorize requests and resets of other codes come in between.
C12_BindingStays == [][C12_Step]_vars /\ []C12_IssuedAreStored

\* A binding has outlived the binding of another code and the successful reset
\* of that other code.
C12_Witness ==
  /\ req.kind = "reset" /\ res = ResetOk
  /\ Len(bindingsFile.bindings) = 1
  /\ bindingsFile.bindings[1].token = uuidv4(2)
  /\ uuids = 4
  /\ Cardinality(issued) = 1

-----------------------------------------------------------------------------
(* C13 *)

\* C13: when the text of bindings.json does not parse, a request whose handler
\* loads the bindings is answered with the 500 storage failure, and the step
\* leaves in the file every binding its text held.
C13_CorruptStoreFails ==
  [][(bindingsFile.exists /\ ~bindingsFile.parses /\ Responds
      /\ "loadBindings" \in io')
     => /\ res'.status = 500
        /\ \A i \in 1..Len(bindingsFile.bindings) :
             \E j \in 1..Len(bindingsFile'.bindings) :
               bindingsFile'.bindings[j] = bindingsFile.bindings[i]]_vars

-----------------------------------------------------------------------------
(* C14 *)

\* C14: a /api/auth request whose code normalizes to the empty string gets no
\* ok response and adds no binding, whatever codes.json lists.
C14_EmptyCodeNeverBinds ==
  [][(req'.kind = "auth" /\ normalizeCode(req'.code) = <<>>)
     => /\ ~res'.ok
        /\ bindingsFile'.bindings = bindingsFile.bindings]_vars

-----------------------------------------------------------------------------
(* C15 *)

\* C15: a /api/auth request with a fingerprint and a token is answered by the
\* token branch, with or without a code: codes.json is not read, the stored
\* bindings stay, the answer is one of the three token answers, and it is
\* "Invalid token" when no binding has the token.
C15_TokenPathOnly ==
  [][(/\ req'.kind = "auth"
      /\ Truthy(req'.fingerprint) /\ IsString(req'.fingerprint)
      /\ Truthy(req'.token))
     => /\ "loadCodes" \notin io' /\ codesFile' = codesFile
        /\ bindingsFile'.bindings = bindingsFile.bindings
        /\ res' \in {InvalidToken, TokenMismatch, TokenOk}
        /\ (\A k \in 1..Len(bindingsFile.bindings) :
              bindingsFile.bindings[k].token /= req'.token)
           => res' = InvalidToken]_vars

\* A token no binding has came with a registered code nobody has redeemed, and
\* the answer was "Invalid token".
C15_Witness ==
  /\ res = InvalidToken
  /\ Truthy(req.token) /\ req.code = Str(abc123)
  /\ Registered(req.code)
  /\ BindingsOf(bindingsFile, req.code) = {}

-----------------------------------------------------------------------------
(* C16 *)

\* C16: a /api/auth step that answers bound-first-time adds one binding, the
\* one of the response, after the stored ones and changes none of them; a
\* /api/auth step with any other answer leaves the stored bindings as they
\* were.
C16_OnlyFirstBindWrites ==
  [][req'.kind = "auth"
     => LET old == bindingsFile.bindings
            new == bindingsFile'.bindings
        IN IF res'.mode = "bound-first-time"
           THEN /\ Len(new) = Len(old) + 1
                /\ \A i \in 1..Len(old) : new[i] = old[i]
                /\ new[Len(new)].token = res'.token
                /\ new[Len(new)].fingerprint = req'.fingerprint
                /\ new[Len(new)].code = req'.code
           ELSE new = old]_vars

\* A first redemption has added a second binding to the store.
C16_Witness ==
  /\ res.mode = "bound-first-time"
  /\ Len(bindingsFile.bindings) = 2
  /\ bindingsFile.bindings[2].token = res.token

-----------------------------------------------------------------------------
(* C17 *)

C17_Step ==
  \A i \in 1..Len(bindingsFile.bindings) :
    \A j \in 1..Len(bindingsFile'.bindings) :
      bindingsFile'.bindings[j].id = bindingsFile.bindings[i].id
      => bindingsFile'.bindings[j] = bindingsFile.bindings[i]

C17_OneEntryPerId ==
  \A i, j \in 1..Len(bindingsFile.bindings) :
    bindingsFile.bindings[i].id = bindingsFile.bindings[j].id => i = j

\* C17: in every step, a binding whose id is stored before and after has the
\* same id, code, fingerprint and token after as before, and no two stored
\* bindings share an id.
C17_BindingsImmutable == [][C17_Step]_vars /\ []C17_OneEntryPerId

\* The first binding is stored as it was created, after a second binding was
\* added and the device of the first asked again with another spelling.
C17_Witness ==
  /\ Len(bindingsFile.bindings) = 2
  /\ bindingsFile.bindings[1].id = uuidv4(1)
  /\ bindingsFile.bindings[1].token = uuidv4(2)
  /\ res = SameDevice(uuidv4(2))
  /\ req.code /= bindingsFile.bindings[1].code

-----------------------------------------------------------------------------
(* C18 *)

C18_Step ==
  /\ (Responds /\ res'.mode = "bound-first-time")
     => /\ bindingsFile'.exists /\ bindingsFile'.parses
        /\ \E k \in 1..Len(bindingsFile'.bindings) :
             /\ bindingsFile'.bindings[k].token = res'.token
             /\ bindingsFile'.bindings[k].fingerprint = req'.fingerprint
             /\ bindingsFile'.bindings[k].code = req'.code
  /\ (Responds /\ req'.kind = "reset" /\ res'.ok)
     => /\ bindingsFile'.exists /\ bindingsFile'.parses
        /\ BindingsOf(bindingsFile, req'.code) /= {}
        /\ BindingsOf(bindingsFile', req'.code) = {}
  /\ ((req' /= req \/ res' /= res) /\ "saveBindings" \in io'
      /\ bindingsFile' /= saveBindings(Handler(req').bindingsFile.bindings))
     => ~res'.ok /\ res'.token = Undefined

\* C18: a step that answers bound-first-time leaves bindings.json parsing and
\* holding the binding of the response, and a step that answers ok to a reset
\* leaves it parsing and holding no binding of the code, so the process
\* started next loads the change; a step whose call of saveBindings did not
\* leave its content in the file answers no success and gives no token.
C18_WrittenBeforeAnswered == [][C18_Step]_vars

\* saveBindings has thrown on a first redemption: the client got the 500
\* answer and no binding of the code is stored.
C18_Witness ==
  /\ IsCodePath(req) /\ "saveBindings" \in io
  /\ res = InternalError
  /\ BindingsOf(bindingsFile, req.code) = {}
  /\ Len(bindingsFile.bindings) = 1

-----------------------------------------------------------------------------
(* C19 *)

C19_Step ==
  /\ (/\ req'.kind = "auth"
      /\ Truthy(req'.fingerprint) /\ IsString(req'.fingerprint)
      /\ req'.token \in revoked)
     => res' = InvalidToken
  /\ res'.mode = "bound-first-time"
     => res'.token \notin revoked \cup {i.token : i \in issued}

\* C19: a token whose binding a successful reset removed gets "Invalid token"
\* in every later /api/auth request with a fingerprint, whichever the
\* fingerprint, and the token of a bound-first-time response is none of the
\* tokens issued before it, so redeeming the code again does not revive it.
C19_RevokedTokenStaysInvalid == [][C19_Step]_vars

\* The only code of the registry was redeemed, reset and redeemed again, and
\* the device then presented the token of the first redemption.
C19_Witness ==
  /\ res = InvalidToken
  /\ req.token = uuidv4(2) /\ req.token \in revoked
  /\ Len(loadCodes(codesFile)) = 1
  /\ \E i \in issued : i.token = uuidv4(4) /\ i.fingerprint = req.fingerprint

-----------------------------------------------------------------------------
(* C20 *)

\* C20: the last response carries a token only if it is a bound-first-time or
\* same-device answer to a /api/auth request whose fingerprint is that of the
\* stored binding owning the token; a failure and a mode "token" answer
\* carry none.
C20_TokenOnlyToBoundDevice ==
  /\ res.token /= Undefined
     => /\ req.kind = "auth"
        /\ res.mode \in {"bound-first-time", "same-device"}
        /\ \E k \in 1..Len(bindingsFile.bindings) :
             /\ bindingsFile.bindings[k].token = res.token
             /\ bindingsFile.bindings[k].fingerprint = req.fingerprint
  /\ (~res.ok \/ res.mode = "token") => res.token = Undefined

\* The device a code is bound to asked again and got its token, while another
\* binding, of another device, is stored.
C20_Witness ==
  /\ res.mode = "same-device"
  /\ \E k \in 1..Len(bindingsFile.bindings) :
       /\ bindingsFile.bindings[k].token = res.token
       /\ bindingsFile.bindings[k].fingerprint = req.fingerprint
  /\ \E k \in 1..Len(bindingsFile.bindings) :
       bindingsFile.bindings[k].fingerprint /= req.fingerprint

=============================================================================
